---- MODULE Spec2Model ----
(***************************************************************************)
(* Model of the mais_art_journal core utilities:                           *)
(*   - schedule_auto_recall._recall_task   (core/utils/recall_utils.py)    *)
(*   - OpenAIChatClient._extract_image_from_response                       *)
(*                                   (core/api_clients/openai_chat_client) *)
(*   - get_model_config / merge_negative_prompt / inject_llm_original_size *)
(*                                   (core/utils/model_utils.py)           *)
(*   - resolve_image_data            (core/utils/image_send_utils.py)      *)
(*   - OpenAIChatClient._make_request, from the proxy configuration on     *)
(*                                   (core/api_clients/openai_chat_client) *)
(*   - several schedule_auto_recall invocations for one chat               *)
(*                                   (core/utils/recall_utils.py)          *)
(* Each has its own specification: SpecRecall, SpecExtract, SpecConfig,    *)
(* SpecResolve, SpecRequest, SpecChat.                                     *)
(* Text is modelled as a sequence of one-character strings, Python values  *)
(* as tagged records [t |-> type, v |-> value], dicts as functions from    *)
(* keys to values, and object identity as an index into a heap. A          *)
(* character outside ASCII is written by its code point ("U+56FE").        *)
(***************************************************************************)
EXTENDS Integers, Sequences, FiniteSets, TLC

VARIABLES
    \* ---- recall task (recall_utils.py) ----
    pc,                 \* position of _recall_task
    messages,           \* what get_messages_by_time_in_chat returned
    target_message_id,  \* the local of the same name (None until found)
    cmdIdx,             \* index into DELETE_COMMAND_CANDIDATES the for loop is at
    calls,              \* the calls made to send_command_fn, in order
    lastResult,         \* outcome of the last completed send_command_fn call
    recall_success,     \* the local of the same name
    trace,              \* the steps the task has completed, in order
    cancelledAt,        \* position at which CancelledError was delivered
    \* ---- response extraction (openai_chat_client.py) ----
    response_data,      \* the parsed chat/completions response
    extractResult,      \* what _extract_image_from_response returned
    \* ---- model configuration (model_utils.py) ----
    heap,               \* the Python objects, by identity (index)
    leafCfg,            \* what config_getter gives for models.<id>.<field>
    cfgRef,             \* the config the caller holds (0: None, -1: not yet resolved)
    lastCall,           \* the last call of a model_utils function
    heapBefore,         \* the objects as they were before that call
    nCalls,             \* number of derived-config calls made
    \* ---- image data resolution (image_send_utils.py) ----
    rpc,                \* position of resolve_image_data
    image_data,         \* the argument of the same name
    downloadCalls,      \* the arguments download_fn was invoked with, in order
    downloadOutcome,    \* what the call of download_fn did
    resolveResult,      \* what resolve_image_data returned
    \* ---- generation request (openai_chat_client.py, _make_request) ----
    qpc,                \* position of _make_request
    base_url,           \* model_config["base_url"]
    proxy_config,       \* what _get_proxy_config returned
    timeout,            \* the local of the same name (0: not set)
    httpOutcome,        \* what the server or the transport did
    extractCalls,       \* the responses handed to _extract_image_from_response
    requestResult,      \* what _make_request returned
    \* ---- concurrent recall invocations (recall_utils.py) ----
    now,                \* time_module.time(), in seconds
    listOrder,          \* the order in which the message store lists messages
    store,              \* the messages of the chat in the message store
    sent,               \* per invocation: the message whose sending scheduled it
    tasks               \* per invocation: the state of its _recall_task

recallVars == <<pc, messages, target_message_id, cmdIdx, calls, lastResult,
                recall_success, trace, cancelledAt>>

extractVars == <<response_data, extractResult>>

configVars == <<heap, leafCfg, cfgRef, lastCall, heapBefore, nCalls>>

resolveVars == <<rpc, image_data, downloadCalls, downloadOutcome, resolveResult>>

requestVars == <<qpc, base_url, proxy_config, timeout, httpOutcome, extractCalls,
                 requestResult>>

chatVars == <<now, listOrder, store, sent, tasks>>

vars == <<recallVars, extractVars, configVars, resolveVars, requestVars, chatVars>>

----------------------------------------------------------------------------
(* Python values *)

None == [t |-> "none"]
IntV(n) == [t |-> "int", v |-> n]
StrV(s) == [t |-> "str", v |-> s]
BoolV(b) == [t |-> "bool", v |-> b]
DictV(d) == [t |-> "dict", v |-> d]

DigitChars == <<"0", "1", "2", "3", "4", "5", "6", "7", "8", "9">>
DigitSet == {DigitChars[i] : i \in 1..10}

UpperChars == <<"A", "B", "C", "D", "E", "F", "G", "H", "I", "J", "K", "L", "M",
                "N", "O", "P", "Q", "R", "S", "T", "U", "V", "W", "X", "Y", "Z">>
LowerChars == <<"a", "b", "c", "d", "e", "f", "g", "h", "i", "j", "k", "l", "m",
                "n", "o", "p", "q", "r", "s", "t", "u", "v", "w", "x", "y", "z">>
UpperSet == {UpperChars[i] : i \in 1..26}
LowerSet == {LowerChars[i] : i \in 1..26}

\* str.lower() on one character, and on a string
LowerChar(c) ==
    IF c \in UpperSet
    THEN LowerChars[CHOOSE i \in 1..26 : UpperChars[i] = c]
    ELSE c
Lower(s) == [i \in 1..Len(s) |-> LowerChar(s[i])]

\* str(n) for an int: decimal digits, with a minus sign when negative
RECURSIVE DecStr(_)
DecStr(n) ==
    IF n < 10 THEN <<DigitChars[n + 1]>>
    ELSE DecStr(n \div 10) \o <<DigitChars[(n % 10) + 1]>>

\* str(x) for the value types the model uses
PyStr(x) ==
    CASE x.t = "str" -> x.v
      [] x.t = "int" -> IF x.v < 0 THEN <<"-">> \o DecStr(0 - x.v) ELSE DecStr(x.v)
      [] x.t = "bool" -> IF x.v THEN <<"T", "r", "u", "e">> ELSE <<"F", "a", "l", "s", "e">>
      [] x.t = "none" -> <<"N", "o", "n", "e">>

\* str.isdigit(): non-empty and every character a digit
IsDigit(s) == Len(s) > 0 /\ \A i \in 1..Len(s) : s[i] \in DigitSet

\* x == 0 in Python: int 0, or the bool False
PyEqZero(x) == (x.t = "int" /\ x.v = 0) \/ (x.t = "bool" /\ x.v = FALSE)

\* dict.get(key, default)
DictGet(d, key, default) == IF key \in DOMAIN d THEN d[key] ELSE default

----------------------------------------------------------------------------
(* schedule_auto_recall._recall_task *)

MaxMsgs == 2

DELETE_COMMAND_CANDIDATES == <<"DELETE_MSG", "delete_msg", "RECALL_MSG", "recall_msg">>

\* global_config.bot.qq_account
BotAccount == IntV(10)

\* message records {user_info.user_id, message_id} the store can return
MessagePalette ==
    { [user_id |-> IntV(10), message_id |-> StrV(<<"7", "7">>)],
      [user_id |-> StrV(<<"1", "0">>), message_id |-> IntV(42)],
      [user_id |-> IntV(10), message_id |-> StrV(<<"m", "7">>)],
      [user_id |-> IntV(10), message_id |-> StrV(<<>>)],
      [user_id |-> IntV(10), message_id |-> IntV(-3)],
      [user_id |-> IntV(20), message_id |-> StrV(<<"5">>)] }

MessageLists == UNION {[1..n -> MessagePalette] : n \in 0..MaxMsgs}

\* what send_command_fn can return
ResultPalette ==
    { BoolV(TRUE), BoolV(FALSE), None, IntV(1), StrV(<<"o", "k">>),
      DictV("status" :> StrV(<<"o", "k">>)),
      DictV("status" :> StrV(<<"O", "K">>)),
      DictV("status" :> StrV(<<"s", "u", "c", "c", "e", "s", "s">>)),
      DictV("status" :> StrV(<<"f", "a", "i", "l", "e", "d">>)),
      DictV(("status" :> StrV(<<"f", "a", "i", "l", "e", "d">>)) @@ ("retcode" :> IntV(0))),
      DictV(("status" :> StrV(<<"f", "a", "i", "l", "e", "d">>)) @@ ("retcode" :> IntV(1))),
      DictV("code" :> IntV(0)),
      DictV("retcode" :> StrV(<<"0">>)),
      DictV(<<>>) }

NoCall == [t |-> "nocall"]
Raised == [t |-> "raise"]

\* the awaits of the task: lines 36, 70 and 82
SuspensionPoints == {"grace_wait", "delay_wait", "in_call"}

\* the for loop over messages, from index i: the first bot message with a
\* purely numeric id, or None
RECURSIVE ScanMessages(_, _, _)
ScanMessages_noDigitCheck(msgs, bot_id, i) ==
    IF i > Len(msgs) THEN None
    ELSE IF PyStr(msgs[i].user_id) = bot_id
         THEN StrV(PyStr(msgs[i].message_id))
         ELSE ScanMessages(msgs, bot_id, i + 1)

ScanMessages(msgs, bot_id, i) ==
    IF i > Len(msgs) THEN None
    ELSE IF PyStr(msgs[i].user_id) = bot_id
         THEN LET mid == PyStr(msgs[i].message_id)
              IN  IF IsDigit(mid) THEN StrV(mid)
                  ELSE ScanMessages(msgs, bot_id, i + 1)
         ELSE ScanMessages(msgs, bot_id, i + 1)

FindTarget(msgs) == ScanMessages(msgs, PyStr(BotAccount), 1)

\* `if not target_message_id: return`, else on to the delay wait
AfterLookup_noDelay(target) ==
    IF target = None \/ target.v = <<>> THEN "not_found" ELSE "attempt"

AfterLookup(target) ==
    IF target = None \/ target.v = <<>> THEN "not_found" ELSE "delay_wait"

\* the success test on the result of send_command_fn, lines 87-99
IsSuccess_truthy(result) ==
    \/ result.t = "bool" /\ result.v
    \/ result.t = "int" /\ result.v # 0
    \/ result.t = "str" /\ result.v # <<>>
    \/ result.t = "dict" /\ DOMAIN result.v # {}

IsSuccess(result) ==
    \/ result.t = "bool" /\ result.v
    \/ /\ result.t = "dict"
       /\ LET status == Lower(PyStr(DictGet(result.v, "status", StrV(<<>>))))
          IN  \/ status \in {<<"o", "k">>, <<"s", "u", "c", "c", "e", "s", "s">>}
              \/ PyEqZero(DictGet(result.v, "retcode", None))
              \/ PyEqZero(DictGet(result.v, "code", None))

\* `except Exception` around one attempt (line 105): CancelledError is a
\* BaseException and passes through it
InnerCatches_all(exc) == TRUE

InnerCatches(exc) == exc = "Exception"

\* the handlers of the outer try (lines 114-117): the position the task ends in
OuterHandler_noCancelClause(exc) ==
    IF exc = "Exception" THEN "error" ELSE "escaped"

OuterHandler(exc) ==
    CASE exc = "CancelledError" -> "cancelled"
      [] exc = "Exception" -> "error"
      [] OTHER -> "escaped"

\* the locals of a task that has just been created; pc0 is its position
RecallStart(pc0) ==
    /\ pc = pc0
    /\ messages = <<>>
    /\ target_message_id = None
    /\ cmdIdx = 1
    /\ calls = <<>>
    /\ lastResult = NoCall
    /\ recall_success = FALSE
    /\ trace = <<>>
    /\ cancelledAt = "none"

\* no generation request in flight
NotRun == <<FALSE, "not_run">>
ExtractIdle ==
    /\ response_data = [choices |-> <<>>]
    /\ extractResult = NotRun

\* no configuration loaded, no model_utils call made
NoCfgCall == [op |-> "none"]
ConfigIdle ==
    /\ heap = <<>>
    /\ leafCfg = <<>>
    /\ cfgRef = -1
    /\ lastCall = NoCfgCall
    /\ heapBefore = <<>>
    /\ nCalls = 0

\* resolve_image_data not called
NoDownload == [kind |-> "none"]
ResolveIdle ==
    /\ rpc = "idle"
    /\ image_data = <<>>
    /\ downloadCalls = <<>>
    /\ downloadOutcome = NoDownload
    /\ resolveResult = NotRun

\* _make_request not called
NoOutcome == [kind |-> "none"]
RequestIdle ==
    /\ qpc = "idle"
    /\ base_url = <<>>
    /\ proxy_config = None
    /\ timeout = 0
    /\ httpOutcome = NoOutcome
    /\ extractCalls = <<>>
    /\ requestResult = NotRun

\* a chat in which no image has been sent
ChatIdle ==
    /\ now = 0
    /\ listOrder = "oldest_first"
    /\ store = <<>>
    /\ sent = <<>>
    /\ tasks = <<>>

\* asyncio.create_task(_recall_task()): the task is in its grace wait
InitRecall ==
    /\ RecallStart("grace_wait")
    /\ ExtractIdle
    /\ ConfigIdle
    /\ ResolveIdle
    /\ RequestIdle
    /\ ChatIdle

\* asyncio.sleep(4) returns
GraceWaitDone ==
    /\ pc = "grace_wait"
    /\ pc' = "lookup"
    /\ trace' = Append(trace, "grace_wait")
    /\ UNCHANGED <<messages, target_message_id, cmdIdx, calls, lastResult,
                   recall_success, cancelledAt>>

\* get_messages_by_time_in_chat returns msgs; the scan; return or go on
Lookup ==
    /\ pc = "lookup"
    /\ \E msgs \in MessageLists :
          /\ messages' = msgs
          /\ target_message_id' = FindTarget(msgs)
          /\ pc' = AfterLookup(FindTarget(msgs))
    /\ trace' = Append(trace, "lookup")
    /\ UNCHANGED <<cmdIdx, calls, lastResult, recall_success, cancelledAt>>

\* the message store (or the config read) raises: caught by the outer handler
LookupRaises ==
    /\ pc = "lookup"
    /\ pc' = OuterHandler("Exception")
    /\ UNCHANGED <<messages, target_message_id, cmdIdx, calls, lastResult,
                   recall_success, trace, cancelledAt>>

\* asyncio.sleep(delay_seconds) returns; the for loop starts
DelayWaitDone ==
    /\ pc = "delay_wait"
    /\ pc' = "attempt"
    /\ trace' = Append(trace, "delay_wait")
    /\ UNCHANGED <<messages, target_message_id, cmdIdx, calls, lastResult,
                   recall_success, cancelledAt>>

\* send_command_fn(command_name=cmd, args={"message_id": ...}, storage_message=False)
SendCommand ==
    /\ pc = "attempt"
    /\ calls' = Append(calls, [command_name |-> DELETE_COMMAND_CANDIDATES[cmdIdx],
                               message_id |-> PyStr(target_message_id),
                               storage_message |-> FALSE])
    /\ pc' = "in_call"
    /\ trace' = Append(trace, "attempt")
    /\ UNCHANGED <<messages, target_message_id, cmdIdx, lastResult,
                   recall_success, cancelledAt>>

\* the loop goes on to the next candidate, or ends with recall_success false
NextCandidate ==
    IF cmdIdx < Len(DELETE_COMMAND_CANDIDATES)
    THEN /\ cmdIdx' = cmdIdx + 1
         /\ pc' = "attempt"
    ELSE /\ pc' = "failed"
         /\ UNCHANGED cmdIdx

\* the awaited call returns a result
CommandReturns ==
    /\ pc = "in_call"
    /\ \E result \in ResultPalette :
          /\ lastResult' = result
          /\ IF IsSuccess(result)
             THEN /\ recall_success' = TRUE
                  /\ pc' = "recalled"
                  /\ UNCHANGED cmdIdx
             ELSE /\ NextCandidate
                  /\ UNCHANGED recall_success
    /\ UNCHANGED <<messages, target_message_id, calls, trace, cancelledAt>>

\* the awaited call raises an Exception
CommandRaises ==
    /\ pc = "in_call"
    /\ lastResult' = Raised
    /\ IF InnerCatches("Exception")
       THEN NextCandidate
       ELSE /\ pc' = OuterHandler("Exception")
            /\ UNCHANGED cmdIdx
    /\ UNCHANGED <<messages, target_message_id, calls, recall_success, trace,
                   cancelledAt>>

\* the task is cancelled while suspended: CancelledError is raised at the await
Cancel ==
    /\ pc \in SuspensionPoints
    /\ cancelledAt' = pc
    /\ IF pc = "in_call" /\ InnerCatches("CancelledError")
       THEN NextCandidate
       ELSE /\ pc' = OuterHandler("CancelledError")
            /\ UNCHANGED cmdIdx
    /\ UNCHANGED <<messages, target_message_id, calls, lastResult,
                   recall_success, trace>>

NextRecall ==
    \/ GraceWaitDone /\ UNCHANGED <<extractVars, configVars, resolveVars, requestVars, chatVars>>
    \/ Lookup /\ UNCHANGED <<extractVars, configVars, resolveVars, requestVars, chatVars>>
    \/ LookupRaises /\ UNCHANGED <<extractVars, configVars, resolveVars, requestVars, chatVars>>
    \/ DelayWaitDone /\ UNCHANGED <<extractVars, configVars, resolveVars, requestVars, chatVars>>
    \/ SendCommand /\ UNCHANGED <<extractVars, configVars, resolveVars, requestVars, chatVars>>
    \/ CommandReturns /\ UNCHANGED <<extractVars, configVars, resolveVars, requestVars, chatVars>>
    \/ CommandRaises /\ UNCHANGED <<extractVars, configVars, resolveVars, requestVars, chatVars>>
    \/ Cancel /\ UNCHANGED <<extractVars, configVars, resolveVars, requestVars, chatVars>>

SpecRecall == InitRecall /\ [][NextRecall]_vars

----------------------------------------------------------------------------
(* Claims about the recall task, checked under SpecRecall *)

RecallTerminal == {"not_found", "recalled", "failed", "cancelled", "error", "escaped"}

DelayWaitPassed == \E i \in 1..Len(trace) : trace[i] = "delay_wait"

\* the results the claims count as success: boolean true, or a mapping with
\* status ok/success (in any letter case), retcode 0 or code 0
ClaimSuccessResults ==
    { BoolV(TRUE),
      DictV("status" :> StrV(<<"o", "k">>)),
      DictV("status" :> StrV(<<"O", "K">>)),
      DictV("status" :> StrV(<<"s", "u", "c", "c", "e", "s", "s">>)),
      DictV(("status" :> StrV(<<"f", "a", "i", "l", "e", "d">>)) @@ ("retcode" :> IntV(0))),
      DictV("code" :> IntV(0)) }

ClaimCandidates == <<"DELETE_MSG", "delete_msg", "RECALL_MSG", "recall_msg">>

\* C1 as stated: once the delay wait has passed, a cancellation request does
\* not interrupt the task; every task that ends after the delay wait ends
\* with the first success or with all candidates exhausted.
C1_RunsToCompletion ==
    (DelayWaitPassed /\ pc \in RecallTerminal) => pc \in {"recalled", "failed"}

\* C1 amended: a cancellation delivered while a delete command call is
\* awaited ends the task silently at that attempt (no success recorded, no
\* further candidate tried); a task that passed the delay wait and was not
\* cancelled ends with the first success or with all candidates exhausted.
C1_CancelInterruptsAttempt ==
    /\ cancelledAt = "in_call" =>
          /\ pc = "cancelled"
          /\ ~recall_success
          /\ Len(calls) = cmdIdx
    /\ (DelayWaitPassed /\ pc \in RecallTerminal /\ cancelledAt = "none") =>
          \/ pc = "recalled" /\ recall_success
          \/ pc = "failed" /\ ~recall_success /\ Len(calls) = Len(ClaimCandidates)

C1_Witness == cancelledAt = "in_call" /\ Len(calls) = 2

\* C2: a task cancelled in the grace wait or in the delay wait ends silently:
\* it is in its cancelled end state (no exception escaped) and the command
\* dispatcher has not been and is never called.
C2_CancelInWaitIsSilent ==
    cancelledAt \in {"grace_wait", "delay_wait"} =>
        /\ pc = "cancelled"
        /\ calls = <<>>
        /\ ~recall_success

C2_Witness == cancelledAt = "delay_wait" /\ target_message_id # None

\* C3: the calls made are a prefix of DELETE_MSG, delete_msg, RECALL_MSG,
\* recall_msg; a call that returns a non-success result or raises is followed
\* by the next candidate, or by the failed end state after the fourth; a call
\* that returns success ends the task with no further call; nothing escapes.
C3_Inv ==
    /\ Len(calls) <= Len(ClaimCandidates)
    /\ \A i \in 1..Len(calls) : calls[i].command_name = ClaimCandidates[i]
    /\ lastResult \in ClaimSuccessResults <=> pc = "recalled"
    /\ pc = "failed" => Len(calls) = Len(ClaimCandidates)
    /\ calls # <<>> => pc \notin {"error", "escaped"}

C3_Step ==
    /\ (pc = "in_call" /\ cancelledAt' = cancelledAt) =>
          IF lastResult' \in ClaimSuccessResults
          THEN pc' = "recalled" /\ calls' = calls
          ELSE IF Len(calls) < Len(ClaimCandidates)
               THEN pc' = "attempt" /\ calls' = calls
               ELSE pc' = "failed" /\ calls' = calls
    /\ pc = "attempt" =>
          /\ Len(calls') = Len(calls) + 1
          /\ calls'[Len(calls')].command_name = ClaimCandidates[Len(calls) + 1]

\* C3: the order, stop-at-first-success and never-raises facts above hold in
\* every state, and every step of the loop follows the rule above.
C3_CandidatesInOrder == []C3_Inv /\ [][C3_Step]_vars

C3_Witness ==
    /\ pc = "recalled"
    /\ Len(calls) = 3
    /\ lastResult = DictV("code" :> IntV(0))

\* C4: after the lookup the target is the id of the first returned message
\* that is from the bot account and has a purely numeric id; with such a
\* message the task goes on to the delay wait and every delete command
\* carries that id; without one the task ends at the lookup and the command
\* dispatcher is never called.
NumericBotMessages ==
    { [user_id |-> IntV(10), message_id |-> StrV(<<"7", "7">>)],
      [user_id |-> StrV(<<"1", "0">>), message_id |-> IntV(42)] }

NumericIdOf(m) ==
    IF m = [user_id |-> IntV(10), message_id |-> StrV(<<"7", "7">>)]
    THEN <<"7", "7">>
    ELSE <<"4", "2">>

FirstNumericBot(msgs) ==
    CHOOSE i \in 1..Len(msgs) :
        /\ msgs[i] \in NumericBotMessages
        /\ \A j \in 1..(i - 1) : msgs[j] \notin NumericBotMessages

C4_Expected(msgs) ==
    IF \E i \in 1..Len(msgs) : msgs[i] \in NumericBotMessages
    THEN StrV(NumericIdOf(msgs[FirstNumericBot(msgs)]))
    ELSE None

C4_Inv ==
    Len(trace) >= 2 =>
        /\ target_message_id = C4_Expected(messages)
        /\ target_message_id = None => pc = "not_found" /\ calls = <<>>
        /\ target_message_id # None =>
              /\ pc # "not_found"
              /\ \A i \in 1..Len(calls) : calls[i].message_id = target_message_id.v

C4_Step ==
    (pc = "lookup" /\ trace' # trace) =>
        pc' = IF C4_Expected(messages') = None THEN "not_found" ELSE "delay_wait"

\* C4: the lookup selects the first numeric-id bot message in every state and
\* every lookup step goes to the delay wait with it, or ends without it.
C4_LookupSelectsFirstNumericBotId == []C4_Inv /\ [][C4_Step]_vars

C4_Witness ==
    /\ messages = <<[user_id |-> IntV(10), message_id |-> StrV(<<"m", "7">>)],
                    [user_id |-> StrV(<<"1", "0">>), message_id |-> IntV(42)]>>
    /\ Len(calls) >= 1

\* C5: the steps of one invocation happen in the order grace wait, lookup,
\* delay wait, attempts: the lookup runs only after the grace wait has
\* completed, the delay wait starts only after the lookup, and no delete
\* command is sent before the delay wait has completed.
StepOrder == <<"grace_wait", "lookup", "delay_wait">>

C5_StrictStepOrder ==
    /\ \A i \in 1..Len(trace) :
          trace[i] = IF i <= Len(StepOrder) THEN StepOrder[i] ELSE "attempt"
    /\ pc = "grace_wait" => trace = <<>>
    /\ pc = "lookup" => trace = <<"grace_wait">>
    /\ pc = "delay_wait" => trace = <<"grace_wait", "lookup">>
    /\ pc \in {"attempt", "in_call"} => Len(trace) >= Len(StepOrder)
    /\ messages # <<>> => Len(trace) >= 2
    /\ Len(calls) = IF Len(trace) > Len(StepOrder) THEN Len(trace) - Len(StepOrder) ELSE 0

C5_Witness == pc = "in_call" /\ Len(calls) = 1

----------------------------------------------------------------------------
(* OpenAIChatClient._extract_image_from_response *)

MinB64Len == 200
LongB64Len == 1000
ExampleRunLen == 1500

B64Chars == UpperSet \cup LowerSet \cup DigitSet \cup {"+", "/"}
Letters == UpperSet \cup LowerSet
WhiteSpace == {" ", "\n", "\t", "\r"}

\* the character at position i, "" outside the text
At(s, i) == IF i >= 1 /\ i <= Len(s) THEN s[i] ELSE ""

IsB64Char(c) == c \in B64Chars
IsLetter(c) == c \in Letters
\* [A-Za-z0-9+/=]
IsB64OrPad(c) == c \in B64Chars \/ c = "="
\* [^\s\)]
IsMdUrlChar(c) == c # "" /\ c \notin WhiteSpace /\ c # ")"
\* [^\s<>"\']
IsUrlChar(c) == c # "" /\ c \notin WhiteSpace /\ c \notin {"<", ">", "\"", "'"}

MinOf(S) == CHOOSE x \in S : \A y \in S : x <= y
MaxOf(S) == CHOOSE x \in S : \A y \in S : x >= y

\* the literal lit occurs at position i
StartsAt(s, i, lit) == \A k \in 1..Len(lit) : At(s, i + k - 1) = lit[k]
\* the same under re.IGNORECASE (lit in lower case)
StartsAtIgnoreCase(s, i, lit) ==
    \A k \in 1..Len(lit) : LowerChar(At(s, i + k - 1)) = lit[k]

\* last position of the maximal run of Class characters that starts at i
\* (i - 1 when the character at i is not in the class)
InClass(class, c) ==
    CASE class = "b64" -> IsB64Char(c)
      [] class = "letter" -> IsLetter(c)
      [] class = "b64pad" -> IsB64OrPad(c)
      [] class = "mdurl" -> IsMdUrlChar(c)
      [] class = "url" -> IsUrlChar(c)

RunEnd(s, i, class) ==
    MinOf({j \in i..(Len(s) + 1) : ~InClass(class, At(s, j))}) - 1

NoMatch == <<>>

HTTP_ == <<"h", "t", "t", "p", ":", "/", "/">>
HTTPS_ == <<"h", "t", "t", "p", "s", ":", "/", "/">>
DATA_IMAGE_ == <<"d", "a", "t", "a", ":", "i", "m", "a", "g", "e", "/">>
BASE64_ == <<";", "b", "a", "s", "e", "6", "4", ",">>
B64_SIGNATURES == <<<<"/", "9", "j", "/">>, <<"i", "V", "B", "O", "R", "w">>, <<"U", "k", "l", "G", "R">>, <<"R", "0", "l", "G", "O", "D">>>>
IMAGE_EXTS == <<<<"p", "n", "g">>, <<"j", "p", "g">>, <<"j", "p", "e", "g">>, <<"g", "i", "f">>, <<"w", "e", "b", "p">>, <<"b", "m", "p">>>>

\* https?:// at position i: the position after it, or 0
SchemeEnd(s, i) ==
    IF StartsAt(s, i, HTTPS_) THEN i + Len(HTTPS_)
    ELSE IF StartsAt(s, i, HTTP_) THEN i + Len(HTTP_)
    ELSE 0

SchemeEndIgnoreCase(s, i) ==
    IF StartsAtIgnoreCase(s, i, HTTPS_) THEN i + Len(HTTPS_)
    ELSE IF StartsAtIgnoreCase(s, i, HTTP_) THEN i + Len(HTTP_)
    ELSE 0

\* strategy 1, md_pattern  !\[.*?\]\((https?://[^\s\)]+)\)
\* a match that starts at i and has its "](" at j
MdMatchAt(s, i, j) ==
    /\ StartsAt(s, i, <<"!", "[">>)
    /\ j >= i + 2
    /\ \A k \in (i + 2)..(j - 1) : s[k] # "\n"
    /\ StartsAt(s, j, <<"]", "(">>)
    /\ SchemeEnd(s, j + 2) # 0
    /\ LET a == SchemeEnd(s, j + 2)
           e == RunEnd(s, a, "mdurl")
       IN  e >= a /\ At(s, e + 1) = ")"

\* md_matches[0]: group 1 of the leftmost match, its ".*?" the shortest
MarkdownLink(s) ==
    LET starts == {i \in 1..Len(s) :
                      /\ StartsAt(s, i, <<"!", "[">>)
                      /\ \E j \in (i + 2)..Len(s) : MdMatchAt(s, i, j)}
    IN  IF starts = {} THEN NoMatch
        ELSE LET i == MinOf(starts)
                 j == MinOf({k \in (i + 2)..Len(s) : MdMatchAt(s, i, k)})
                 a == SchemeEnd(s, j + 2)
             IN  <<SubSeq(s, j + 2, RunEnd(s, a, "mdurl"))>>

\* strategy 2, data_uri_pattern  data:image/[a-zA-Z]+;base64,([A-Za-z0-9+/=]+)
DataUriPayloadStart(s, i) ==
    IF ~StartsAt(s, i, DATA_IMAGE_) THEN 0
    ELSE LET a == i + Len(DATA_IMAGE_)
             e == RunEnd(s, a, "letter")
         IN  IF e >= a /\ StartsAt(s, e + 1, BASE64_) /\ IsB64OrPad(At(s, e + 1 + Len(BASE64_)))
             THEN e + 1 + Len(BASE64_)
             ELSE 0

DataUri(s) ==
    LET starts == {i \in 1..Len(s) : DataUriPayloadStart(s, i) # 0}
    IN  IF starts = {} THEN NoMatch
        ELSE LET a == DataUriPayloadStart(s, MinOf(starts))
             IN  <<SubSeq(s, a, RunEnd(s, a, "b64pad"))>>

\* strategy 3, b64_pattern
\*   (?<![A-Za-z0-9+/])([A-Za-z0-9+/]{200,}={0,2})(?![A-Za-z0-9+/])
\* the padding taken after a run that ends at e: the most "=" (at most two)
\* after which no base64 character follows
B64Pad(s, e) ==
    MaxOf({p \in 0..2 : /\ \A k \in 1..p : At(s, e + k) = "="
                        /\ ~IsB64Char(At(s, e + p + 1))})

\* b64_matches, as <<first, last>> positions
B64Matches(s) ==
    LET starts == {i \in 1..Len(s) : IsB64Char(s[i]) /\ ~IsB64Char(At(s, i - 1))}
    IN  {<<i, RunEnd(s, i, "b64") + B64Pad(s, RunEnd(s, i, "b64"))>> :
            i \in {k \in starts : RunEnd(s, k, "b64") - k + 1 >= MinB64Len}}

\* max(b64_matches, key=len): the first of the longest matches
LongestOf(ms) ==
    CHOOSE m \in ms :
        \A o \in ms : \/ o[2] - o[1] < m[2] - m[1]
                      \/ (o[2] - o[1] = m[2] - m[1] /\ m[1] <= o[1])

HasImagePrefix(str) ==
    \E k \in 1..Len(B64_SIGNATURES) : StartsAt(str, 1, B64_SIGNATURES[k])

AcceptB64_atLeast(longest) ==
    HasImagePrefix(longest) \/ Len(longest) >= LongB64Len

AcceptB64(longest) ==
    HasImagePrefix(longest) \/ Len(longest) > LongB64Len

Base64Heuristic(s) ==
    LET ms == B64Matches(s)
    IN  IF ms = {} THEN NoMatch
        ELSE LET m == LongestOf(ms)
                 longest == SubSeq(s, m[1], m[2])
             IN  IF AcceptB64(longest) THEN <<longest>> ELSE NoMatch

\* strategy 4, url_pattern (re.IGNORECASE)
\*   (https?://[^\s<>"\']+\.(?:png|jpg|jpeg|gif|webp|bmp)(?:\?[^\s<>"\']*)?)
\* length of the extension that follows a "." at position d, or 0
ExtAt(s, d) ==
    IF At(s, d) # "." THEN 0
    ELSE LET hits == {k \in 1..Len(IMAGE_EXTS) : StartsAtIgnoreCase(s, d + 1, IMAGE_EXTS[k])}
         IN  IF hits = {} THEN 0 ELSE Len(IMAGE_EXTS[MinOf(hits)])

\* the "." positions a match that starts at i can use
ExtDots(s, i) ==
    LET a == SchemeEndIgnoreCase(s, i)
    IN  IF a = 0 THEN {}
        ELSE {d \in (a + 1)..RunEnd(s, a, "url") : ExtAt(s, d) # 0}

ExtensionUrl(s) ==
    LET starts == {i \in 1..Len(s) : ExtDots(s, i) # {}}
    IN  IF starts = {} THEN NoMatch
        ELSE LET i == MinOf(starts)
                 a == SchemeEndIgnoreCase(s, i)
                 d == MaxOf(ExtDots(s, i))
                 x == d + ExtAt(s, d)
             IN  IF At(s, x + 1) = "?"
                 THEN <<SubSeq(s, i, RunEnd(s, a, "url"))>>
                 ELSE <<SubSeq(s, i, x)>>

\* strategy 5, any_url_pattern  (https?://[^\s<>"\']+)
BareUrl(s) ==
    LET starts == {i \in 1..Len(s) :
                      /\ SchemeEnd(s, i) # 0
                      /\ IsUrlChar(At(s, SchemeEnd(s, i)))}
    IN  IF starts = {} THEN NoMatch
        ELSE LET i == MinOf(starts)
             IN  <<SubSeq(s, i, RunEnd(s, SchemeEnd(s, i), "url"))>>

\* the strategies in the order the method applies them
Strategy_urlFirst(k, s) ==
    CASE k = 1 -> ExtensionUrl(s)
      [] k = 2 -> DataUri(s)
      [] k = 3 -> Base64Heuristic(s)
      [] k = 4 -> MarkdownLink(s)
      [] k = 5 -> BareUrl(s)

Strategy(k, s) ==
    CASE k = 1 -> MarkdownLink(s)
      [] k = 2 -> DataUri(s)
      [] k = 3 -> Base64Heuristic(s)
      [] k = 4 -> ExtensionUrl(s)
      [] k = 5 -> BareUrl(s)

\* strategies tried in turn from k on; the first match is returned
RECURSIVE ExtractFrom(_, _)
ExtractFrom(k, s) ==
    IF k > 5 THEN <<FALSE, "no_image">>
    ELSE IF Strategy(k, s) # NoMatch THEN <<TRUE, Strategy(k, s)[1]>>
         ELSE ExtractFrom(k + 1, s)

\* choices[0].message.content, "" when there is none
ContentOf(resp) ==
    IF resp.choices = <<>> THEN <<>>
    ELSE resp.choices[1].message.content

ExtractImageFromResponse(resp) ==
    LET content == ContentOf(resp)
    IN  IF content = <<>> THEN <<FALSE, "no_content">>
        ELSE ExtractFrom(1, content)

\* pieces of reply text
TxtHere == <<"H", "e", "r", "e", ":", " ">>
TxtMarkdown == <<"!", "[", "x", "]", "(", "h", "t", "t", "p", "s", ":", "/", "/", "e", "x", ".", "c", "o", "m", "/", "a", ".", "p", "n", "g", ")">>
TxtAlso == <<" ", "a", "l", "s", "o", " ">>
TxtJpgUrl == <<"h", "t", "t", "p", "s", ":", "/", "/", "e", "x", ".", "c", "o", "m", "/", "b", ".", "j", "p", "g">>
TxtBareUrl == <<"h", "t", "t", "p", ":", "/", "/", "e", "x", ".", "c", "o", "m", "/", "v", "i", "e", "w">>
TxtDataUri == <<"d", "a", "t", "a", ":", "i", "m", "a", "g", "e", "/", "p", "n", "g", ";", "b", "a", "s", "e", "6", "4", ",", "Q", "Q", "Q", "Q">>
TxtPad == <<"=", "=">>

\* n copies of the character c
Rep(c, n) == [i \in 1..n |-> c]

\* a run of n base64 characters, and one that starts with the PNG signature
PlainRun(n) == Rep("A", n)
PngRun(n) == B64_SIGNATURES[2] \o Rep("A", n - Len(B64_SIGNATURES[2]))

Pieces ==
    { TxtHere, TxtMarkdown, TxtAlso, TxtJpgUrl, TxtBareUrl, TxtDataUri, TxtPad,
      PlainRun(MinB64Len - 1), PlainRun(MinB64Len), PngRun(MinB64Len - 1),
      PngRun(MinB64Len + 1), PlainRun(LongB64Len), PlainRun(LongB64Len + 1),
      PlainRun(ExampleRunLen) }

\* the example of the method's contract: a markdown link and a plain URL
ExampleMarkdownAndUrl == TxtHere \o TxtMarkdown \o TxtAlso \o TxtJpgUrl

\* reply texts: the empty text, one piece, two pieces joined directly or by
\* a space, and the example
Contents ==
    {<<>>, ExampleMarkdownAndUrl} \cup Pieces
    \cup {a \o b : a \in Pieces, b \in Pieces}
    \cup {a \o <<" ">> \o b : a \in Pieces, b \in Pieces}

Responses ==
    {[choices |-> <<>>]} \cup
    {[choices |-> <<[message |-> [content |-> c]]>>] : c \in Contents}

\* no recall task running
RecallIdle == RecallStart("idle")

InitExtract ==
    /\ response_data \in Responses
    /\ extractResult = NotRun
    /\ RecallIdle
    /\ ConfigIdle
    /\ ResolveIdle
    /\ RequestIdle
    /\ ChatIdle

\* _make_request hands the parsed response to _extract_image_from_response
ExtractImage ==
    /\ extractResult = NotRun
    /\ extractResult' = ExtractImageFromResponse(response_data)
    /\ UNCHANGED response_data

NextExtract ==
    \/ ExtractImage /\ UNCHANGED <<recallVars, configVars, resolveVars, requestVars, chatVars>>

SpecExtract == InitExtract /\ [][NextExtract]_vars

----------------------------------------------------------------------------
(* Claims about the extraction pipeline, checked under SpecExtract *)

Extracted == extractResult # NotRun
Content == ContentOf(response_data)
MarkdownUrl == <<"h", "t", "t", "p", "s", ":", "/", "/", "e", "x", ".", "c", "o", "m", "/", "a", ".", "p", "n", "g">>

\* a and b joined directly or by a space
Joined(a, b) == {a \o b, a \o <<" ">> \o b}

\* C6: the result is the payload of the first of markdown link, data URI,
\* base64 heuristic, extension URL, bare URL that matches, and a failure
\* result when none matches or the text is empty; a text that holds the
\* markdown image link next to any other piece yields the link's URL.
C6_Expected(s) ==
    IF s = <<>> THEN <<FALSE, "no_content">>
    ELSE IF MarkdownLink(s) # NoMatch THEN <<TRUE, MarkdownLink(s)[1]>>
    ELSE IF DataUri(s) # NoMatch THEN <<TRUE, DataUri(s)[1]>>
    ELSE IF Base64Heuristic(s) # NoMatch THEN <<TRUE, Base64Heuristic(s)[1]>>
    ELSE IF ExtensionUrl(s) # NoMatch THEN <<TRUE, ExtensionUrl(s)[1]>>
    ELSE IF BareUrl(s) # NoMatch THEN <<TRUE, BareUrl(s)[1]>>
    ELSE <<FALSE, "no_image">>

\* C6: the result of every extraction is that of the first matching strategy
\* in the fixed order; the markdown link wins over other URLs.
C6_FirstMatchWins ==
    Extracted =>
        /\ extractResult = C6_Expected(Content)
        /\ Content = ExampleMarkdownAndUrl => extractResult = <<TRUE, MarkdownUrl>>
        /\ (\E x \in Pieces : Content \in Joined(x, TxtMarkdown) \cup Joined(TxtMarkdown, x))
              => extractResult = <<TRUE, MarkdownUrl>>
        /\ Content \in {TxtDataUri \o <<" ">> \o TxtJpgUrl} \cup Joined(TxtJpgUrl, TxtDataUri)
              => extractResult = <<TRUE, <<"Q", "Q", "Q", "Q">>>>
        /\ Content \in {<<>>, TxtHere, TxtPad, TxtHere \o TxtAlso}
              => extractResult[1] = FALSE

C6_Witness ==
    /\ Extracted
    /\ Content = TxtJpgUrl \o TxtMarkdown
    /\ extractResult = <<TRUE, MarkdownUrl>>

\* C7: with no markdown link and no data URI in the text, the base64
\* heuristic looks at the first of the longest base64 runs of 200 or more
\* characters only, returns it when it starts with a signature prefix or is
\* longer than 1000 characters, and otherwise leaves the result to the URL
\* strategies; a 1500-character run is returned as it is.
C7_LongestRun(s) ==
    LET ms == B64Matches(s)
    IN  CHOOSE m \in ms :
            /\ \A o \in ms : o[2] - o[1] <= m[2] - m[1]
            /\ \A o \in ms : o[2] - o[1] = m[2] - m[1] => m[1] <= o[1]

C7_UrlOutcome(s) ==
    IF ExtensionUrl(s) # NoMatch THEN <<TRUE, ExtensionUrl(s)[1]>>
    ELSE IF BareUrl(s) # NoMatch THEN <<TRUE, BareUrl(s)[1]>>
    ELSE <<FALSE, "no_image">>

C7_Generic(s) ==
    (s # <<>> /\ MarkdownLink(s) = NoMatch /\ DataUri(s) = NoMatch) =>
        IF B64Matches(s) = {} THEN extractResult = C7_UrlOutcome(s)
        ELSE LET m == C7_LongestRun(s)
                 run == SubSeq(s, m[1], m[2])
             IN  /\ m[2] - m[1] + 1 >= 200
                 /\ \A k \in m[1]..(m[1] + 199) : s[k] \in B64Chars
                 /\ IF \/ m[2] - m[1] + 1 > 1000
                       \/ SubSeq(run, 1, 4) = <<"/", "9", "j", "/">>
                       \/ SubSeq(run, 1, 6) = <<"i", "V", "B", "O", "R", "w">>
                       \/ SubSeq(run, 1, 5) = <<"U", "k", "l", "G", "R">>
                       \/ SubSeq(run, 1, 6) = <<"R", "0", "l", "G", "O", "D">>
                    THEN extractResult = <<TRUE, run>>
                    ELSE extractResult = C7_UrlOutcome(s)

\* C7: every extraction that reaches the base64 heuristic decides on the
\* longest run alone, by signature prefix or length over 1000.
C7_Base64Heuristic ==
    Extracted =>
        /\ C7_Generic(Content)
        /\ Content \in {PlainRun(1500), TxtHere \o PlainRun(1500), PlainRun(1500) \o <<" ">> \o TxtHere}
              => extractResult = <<TRUE, PlainRun(1500)>>
        /\ Content \in {PlainRun(1001), PngRun(201)}
              => extractResult = <<TRUE, Content>>
        /\ Content \in {PlainRun(199), PlainRun(200), PlainRun(1000), PngRun(199)}
              => extractResult = <<FALSE, "no_image">>
        /\ Content = PlainRun(1000) \o <<" ">> \o TxtJpgUrl
              => extractResult = <<TRUE, TxtJpgUrl>>
        /\ Content = PngRun(201) \o <<" ">> \o PlainRun(1000)
              => extractResult = <<FALSE, "no_image">>
        /\ Content = PngRun(201) \o <<" ">> \o PlainRun(200)
              => extractResult = <<TRUE, PngRun(201)>>

C7_Witness ==
    /\ Extracted
    /\ Content = TxtHere \o PlainRun(1500)
    /\ extractResult = <<TRUE, PlainRun(1500)>>

----------------------------------------------------------------------------
(* get_model_config, merge_negative_prompt, inject_llm_original_size *)

MaxCalls == 2

\* the `fields` list of get_model_config
FIELDS ==
    << "name", "base_url", "api_key", "format", "model",
       "fixed_size_enabled", "default_size", "seed",
       "guidance_scale", "num_inference_steps", "watermark",
       "custom_prompt_add", "negative_prompt_add", "artist",
       "support_img2img", "auto_recall_delay",
       "cfg", "sampler", "nocache", "noise_schedule",
       "img2img_model_index", "image_upload_url",
       "default_width", "default_height",
       "safety_settings" >>

FieldSet == {FIELDS[i] : i \in 1..Len(FIELDS)}

\* bool(x)
Truthy(x) ==
    CASE x.t = "none" -> FALSE
      [] x.t = "str" -> x.v # <<>>
      [] x.t = "int" -> x.v # 0
      [] x.t = "bool" -> x.v
      [] x.t = "dict" -> DOMAIN x.v # {}

URL1 == <<"h", "t", "t", "p", "s", ":", "/", "/", "a">>
URL2 == <<"h", "t", "t", "p", "s", ":", "/", "/", "b">>
UGLY == <<"u", "g", "l", "y">>
BAD == <<"b", "a", "d">>
BLURRY == <<"b", "l", "u", "r", "r", "y">>
SIZE1 == <<"1", "0", "2", "4", "x", "7", "6", "8">>
SIZE2 == <<"5", "1", "2", "x", "5", "1", "2">>
OPENAI == <<"o", "p", "e", "n", "a", "i">>
GEMINI == <<"g", "e", "m", "i", "n", "i">>
ZAI == <<"z", "a", "i">>

S_u1 == StrV(URL1)
S_u2 == StrV(URL2)
S_ugly == StrV(UGLY)
S_bad == StrV(BAD)
S_empty == StrV(<<>>)

\* what config_getter can give for models.<id>: nothing, a non-mapping, or
\* a mapping with or without a usable base_url
NestedFull ==
    DictV(("base_url" :> S_u1) @@ ("format" :> StrV(GEMINI))
          @@ ("negative_prompt_add" :> S_ugly))
NestedPlain ==
    DictV(("base_url" :> S_u2) @@ ("negative_prompt_add" :> S_empty)
          @@ ("seed" :> IntV(-1)))
NestedOpenai ==
    DictV(("base_url" :> S_u1) @@ ("format" :> StrV(OPENAI))
          @@ ("model" :> StrV(<<"m">>)))
NestedNoUrl == DictV(("format" :> StrV(ZAI)) @@ ("model" :> StrV(<<"m">>)))
NestedEmptyUrl == DictV(("base_url" :> S_empty) @@ ("model" :> StrV(<<"m">>)))
NestedValues ==
    {None, StrV(<<"x">>), NestedFull, NestedPlain, NestedOpenai, NestedNoUrl,
     NestedEmptyUrl}

\* what config_getter can give for models.<id>.<field>, field by field
LeafNone == [f \in FieldSet |-> None]
LeafAll ==
    [f \in FieldSet |->
        CASE f = "base_url" -> S_u2
          [] f = "format" -> StrV(ZAI)
          [] f = "negative_prompt_add" -> S_bad
          [] f = "seed" -> IntV(0)
          [] f = "watermark" -> BoolV(FALSE)
          [] f = "custom_prompt_add" -> S_empty
          [] OTHER -> StrV(<<"v">>)]
LeafUrlOnly == [f \in FieldSet |-> IF f = "base_url" THEN S_u1 ELSE None]
LeafNoUrl == [f \in FieldSet |-> IF f = "base_url" THEN None ELSE LeafAll[f]]
LeafEmptyUrl == [f \in FieldSet |-> IF f = "base_url" THEN S_empty ELSE LeafAll[f]]
LeafValues == {LeafNone, LeafAll, LeafUrlOnly, LeafNoUrl, LeafEmptyUrl}

\* the configured models; the heap slot of a model holds its nested value
ConfiguredModels == <<"model1", "model2">>
ModelIds == {"model1", "model2", "model9"}
SlotOf(model_id) ==
    IF \E i \in 1..Len(ConfiguredModels) : ConfiguredModels[i] = model_id
    THEN CHOOSE i \in 1..Len(ConfiguredModels) : ConfiguredModels[i] = model_id
    ELSE 0

ExtraNegatives == {<<>>, BLURRY}
SizeStrings == {<<>>, SIZE1, SIZE2}

\* the object a reference denotes; reference 0 is None
Deref(h, ref) == IF ref = 0 THEN None ELSE h[ref]

\* config_getter(f"models.{model_id}", None), as a reference
GetNested(model_id) == SlotOf(model_id)

\* config_getter(f"models.{model_id}.{field}", None)
GetLeaf(leaf, model_id, field) ==
    IF SlotOf(model_id) = 0 THEN None ELSE leaf[SlotOf(model_id)][field]

\* isinstance(x, dict) and x.get("base_url")
IsUsableDict(x) ==
    x.t = "dict" /\ Truthy(DictGet(x.v, "base_url", None))

\* the loop over `fields`: the non-None values, by field
Assemble_schemaFieldsOnly(leaf, model_id) ==
    LET present == {FIELDS[i] : i \in {k \in 1..16 : GetLeaf(leaf, model_id, FIELDS[k]) # None}}
    IN  [f \in present |-> GetLeaf(leaf, model_id, f)]

Assemble(leaf, model_id) ==
    LET present == {f \in FieldSet : GetLeaf(leaf, model_id, f) # None}
    IN  [f \in present |-> GetLeaf(leaf, model_id, f)]

\* get_model_config: which step answers, and with what
ResolveModelConfig_defaultFirst(h, leaf, model_id, default_model_id) ==
    LET model_config == GetNested(model_id)
        assembled == Assemble(leaf, model_id)
        fallback == GetNested(default_model_id)
    IN  IF IsUsableDict(Deref(h, model_config))
        THEN [step |-> "nested", ref |-> model_config]
        ELSE IF model_id # default_model_id /\ IsUsableDict(Deref(h, fallback))
        THEN [step |-> "default", ref |-> fallback]
        ELSE IF Truthy(DictGet(assembled, "base_url", None))
        THEN [step |-> "assembled", obj |-> DictV(assembled)]
        ELSE [step |-> "none", ref |-> 0]

ResolveModelConfig(h, leaf, model_id, default_model_id) ==
    LET model_config == GetNested(model_id)
        assembled == Assemble(leaf, model_id)
        fallback == GetNested(default_model_id)
    IN  IF IsUsableDict(Deref(h, model_config))
        THEN [step |-> "nested", ref |-> model_config]
        ELSE IF Truthy(DictGet(assembled, "base_url", None))
        THEN [step |-> "assembled", obj |-> DictV(assembled)]
        ELSE IF model_id # default_model_id /\ IsUsableDict(Deref(h, fallback))
        THEN [step |-> "default", ref |-> fallback]
        ELSE [step |-> "none", ref |-> 0]

\* config = dict(model_config): the reference of the new object
DictCopy_alias(h, ref) == ref

DictCopy(h, ref) == Len(h) + 1

\* the objects after config, the object at ref, has got the contents obj
Store(h, ref, obj) ==
    IF ref = Len(h) + 1 THEN Append(h, obj) ELSE [h EXCEPT ![ref] = obj]

\* dict(model_config) with one key set
DictSet(d, key, val) == [f \in DOMAIN d \cup {key} |-> IF f = key THEN val ELSE d[f]]

\* merge_negative_prompt: the same object, or the contents of a new one
MergeNegativePrompt_passThrough(model_config, extra_negative) ==
    IF extra_negative = <<>> THEN [same |-> TRUE]
    ELSE LET existing == DictGet(model_config.v, "negative_prompt_add", S_empty)
         IN  IF Truthy(existing)
             THEN [same |-> FALSE,
                   obj |-> DictV(DictSet(model_config.v, "negative_prompt_add",
                               StrV(PyStr(existing) \o <<",", " ">> \o extra_negative)))]
             ELSE [same |-> TRUE]

MergeNegativePrompt(model_config, extra_negative) ==
    IF extra_negative = <<>> THEN [same |-> TRUE]
    ELSE LET existing == DictGet(model_config.v, "negative_prompt_add", S_empty)
         IN  IF Truthy(existing)
             THEN [same |-> FALSE,
                   obj |-> DictV(DictSet(model_config.v, "negative_prompt_add",
                               StrV(PyStr(existing) \o <<",", " ">> \o extra_negative)))]
             ELSE [same |-> FALSE,
                   obj |-> DictV(DictSet(model_config.v, "negative_prompt_add",
                               StrV(extra_negative)))]

\* inject_llm_original_size: the same object, or the contents of a new one
InjectLlmOriginalSize_anyFormat(model_config, llm_original_size) ==
    IF llm_original_size # <<>>
    THEN [same |-> FALSE,
          obj |-> DictV(DictSet(model_config.v, "_llm_original_size",
                                StrV(llm_original_size)))]
    ELSE [same |-> TRUE]

InjectLlmOriginalSize(model_config, llm_original_size) ==
    LET api_format == DictGet(model_config.v, "format", StrV(OPENAI))
    IN  IF api_format \in {StrV(GEMINI), StrV(ZAI)} /\ llm_original_size # <<>>
        THEN [same |-> FALSE,
              obj |-> DictV(DictSet(model_config.v, "_llm_original_size",
                                    StrV(llm_original_size)))]
        ELSE [same |-> TRUE]

InitConfig ==
    /\ heap \in [1..Len(ConfiguredModels) -> NestedValues]
    /\ leafCfg \in [1..Len(ConfiguredModels) -> LeafValues]
    /\ cfgRef = -1
    /\ lastCall = NoCfgCall
    /\ heapBefore = heap
    /\ nCalls = 0
    /\ RecallIdle
    /\ ExtractIdle
    /\ ResolveIdle
    /\ RequestIdle
    /\ ChatIdle

\* model_config = get_model_config(self.get_config, model_id, default_model_id)
GetModelConfig ==
    /\ cfgRef = -1
    /\ \E model_id \in ModelIds, default_model_id \in ModelIds :
          LET r == ResolveModelConfig(heap, leafCfg, model_id, default_model_id)
          IN  /\ heapBefore' = heap
              /\ IF r.step = "assembled"
                 THEN /\ heap' = Append(heap, r.obj)
                      /\ cfgRef' = Len(heap) + 1
                 ELSE /\ heap' = heap
                      /\ cfgRef' = r.ref
              /\ lastCall' = [op |-> "get_model_config", model_id |-> model_id,
                              default_model_id |-> default_model_id,
                              out |-> cfgRef']
    /\ UNCHANGED <<leafCfg, nCalls>>

\* the result of a derived-config helper becomes the caller's config
Derive(op, arg, r) ==
    /\ heapBefore' = heap
    /\ IF r.same
       THEN /\ heap' = heap
            /\ cfgRef' = cfgRef
       ELSE LET config == DictCopy(heap, cfgRef)
            IN  /\ heap' = Store(heap, config, r.obj)
                /\ cfgRef' = config
    /\ lastCall' = [op |-> op, arg |-> arg, in |-> cfgRef, out |-> cfgRef']
    /\ nCalls' = nCalls + 1
    /\ UNCHANGED leafCfg

\* model_config = merge_negative_prompt(model_config, extra_negative)
MergeCall ==
    /\ cfgRef > 0
    /\ nCalls < MaxCalls
    /\ \E extra_negative \in ExtraNegatives :
          Derive("merge_negative_prompt", extra_negative,
                 MergeNegativePrompt(heap[cfgRef], extra_negative))

\* model_config = inject_llm_original_size(model_config, llm_original_size)
InjectCall ==
    /\ cfgRef > 0
    /\ nCalls < MaxCalls
    /\ \E llm_original_size \in SizeStrings :
          Derive("inject_llm_original_size", llm_original_size,
                 InjectLlmOriginalSize(heap[cfgRef], llm_original_size))

NextConfig ==
    \/ GetModelConfig /\ UNCHANGED <<recallVars, extractVars, resolveVars, requestVars, chatVars>>
    \/ MergeCall /\ UNCHANGED <<recallVars, extractVars, resolveVars, requestVars, chatVars>>
    \/ InjectCall /\ UNCHANGED <<recallVars, extractVars, resolveVars, requestVars, chatVars>>

SpecConfig == InitConfig /\ [][NextConfig]_vars

----------------------------------------------------------------------------
(* Claims about model configuration, checked under SpecConfig *)

\* the values of the model that are mappings with a non-empty base_url, and
\* the leaf settings whose base_url is non-empty
UsableNested == {NestedFull, NestedPlain, NestedOpenai}
UsableLeaves == {LeafAll, LeafUrlOnly}

\* what the configuration source holds for a model id
NestedOf(id) ==
    IF id = "model1" THEN heapBefore[1]
    ELSE IF id = "model2" THEN heapBefore[2]
    ELSE None
LeavesOf(id) ==
    IF id = "model1" THEN leafCfg[1]
    ELSE IF id = "model2" THEN leafCfg[2]
    ELSE LeafNone
RefOf(id) == IF id = "model1" THEN 1 ELSE IF id = "model2" THEN 2 ELSE 0

Resolved == lastCall.op = "get_model_config"
Fresh(ref) == ref = Len(heapBefore) + 1 /\ Len(heap) = Len(heapBefore) + 1

\* C8: resolution answers with the nested object of the model when that is
\* a mapping with non-empty base_url; else with the mapping assembled from
\* the individually queried fields when that has a non-empty base_url; else,
\* for a model id other than the default, with the nested object of the
\* default model when that is a mapping with non-empty base_url; else with
\* None. So a returned config has a non-empty base_url, and an unknown id
\* with a valid default gets the default model's config.
C8_ResolutionOrder ==
    Resolved =>
        LET m == lastCall.model_id
            d == lastCall.default_model_id
            out == lastCall.out
        IN  /\ IF NestedOf(m) \in UsableNested
               THEN out = RefOf(m) /\ heap = heapBefore
               ELSE IF LeavesOf(m) \in UsableLeaves
               THEN /\ Fresh(out)
                    /\ heap[out] = IF LeavesOf(m) = LeafAll
                                   THEN DictV(LeafAll)
                                   ELSE DictV("base_url" :> S_u1)
               ELSE IF m # d /\ NestedOf(d) \in UsableNested
               THEN out = RefOf(d) /\ heap = heapBefore
               ELSE out = 0 /\ heap = heapBefore
            /\ out >= 0
            /\ out # 0 => /\ heap[out].t = "dict"
                          /\ "base_url" \in DOMAIN heap[out].v
                          /\ heap[out].v["base_url"] \in {S_u1, S_u2}
            /\ (m = "model9" /\ NestedOf(d) \in UsableNested) =>
                  out = RefOf(d) /\ heap[out] = NestedOf(d)

C8_Witness ==
    /\ Resolved
    /\ lastCall.model_id = "model1"
    /\ lastCall.default_model_id = "model2"
    /\ NestedOf("model1") = NestedEmptyUrl
    /\ LeavesOf("model1") = LeafNoUrl
    /\ lastCall.out = 2

\* the case of C9: the nested object of the model has no (non-empty)
\* base_url, and every known field, base_url included, is there one by one
C9_Case ==
    /\ Resolved
    /\ NestedOf(lastCall.model_id) \in {NestedNoUrl, NestedEmptyUrl}
    /\ LeavesOf(lastCall.model_id) = LeafAll

\* C9 as stated: in that case resolution returns the field-assembled config
\* and that config is equal to the nested one.
C9_AssembledEqualsNested ==
    C9_Case =>
        /\ Fresh(lastCall.out)
        /\ heap[lastCall.out] = NestedOf(lastCall.model_id)

\* C9 amended: in that case resolution returns a new mapping that holds
\* exactly the 25 known fields with their individually queried values; it
\* has the base_url the nested object lacks, so it differs from the nested
\* object, which is left as it was.
C9_AssembledFromLeaves ==
    C9_Case =>
        LET out == lastCall.out
            m == lastCall.model_id
        IN  /\ Fresh(out)
            /\ heap[out].t = "dict"
            /\ DOMAIN heap[out].v = FieldSet
            /\ Cardinality(DOMAIN heap[out].v) = 25
            /\ \A f \in FieldSet : heap[out].v[f] = LeavesOf(m)[f]
            /\ heap[out].v["base_url"] = S_u2
            /\ heap[out] # NestedOf(m)
            /\ heap[RefOf(m)] = NestedOf(m)

C9_Witness ==
    /\ C9_Case
    /\ NestedOf(lastCall.model_id) = NestedNoUrl
    /\ heap[lastCall.out].v["sampler"] = StrV(<<"v">>)

\* the call of merge_negative_prompt last made: its input config as it was,
\* the existing negative_prompt_add ("" when absent) and the extra text
Merged == lastCall.op = "merge_negative_prompt"
MergeInput == heapBefore[lastCall.in].v
MergeExisting ==
    IF "negative_prompt_add" \in DOMAIN MergeInput
    THEN MergeInput["negative_prompt_add"]
    ELSE StrV(<<>>)
SameButNegative(d, e) ==
    /\ DOMAIN d = DOMAIN e \cup {"negative_prompt_add"}
    /\ \A f \in DOMAIN e \ {"negative_prompt_add"} : d[f] = e[f]

\* C10 as stated: the result has negative_prompt_add "<existing>, <extra>"
\* when both are non-empty; when either is empty the config passes through
\* unchanged, and for extra = "" the result is the very same object.
C10_PassThroughWhenEitherEmpty ==
    Merged =>
        /\ (MergeExisting.v # <<>> /\ lastCall.arg # <<>>) =>
              heap[lastCall.out].v["negative_prompt_add"] =
                  StrV(MergeExisting.v \o <<",", " ">> \o lastCall.arg)
        /\ (MergeExisting.v = <<>> \/ lastCall.arg = <<>>) =>
              heap[lastCall.out] = heapBefore[lastCall.in]
        /\ lastCall.arg = <<>> => lastCall.out = lastCall.in

\* C10 amended: for a non-empty extra the result is a new config that is the
\* input with negative_prompt_add set to "<existing>, <extra>" when the
\* existing one is non-empty and to extra when it is empty or absent; for
\* extra = "" the result is the very same object.
C10_MergeNegativePrompt ==
    Merged =>
        LET out == lastCall.out
            extra == lastCall.arg
        IN  /\ extra = <<>> => out = lastCall.in /\ heap = heapBefore
            /\ extra # <<>> =>
                  /\ Fresh(out)
                  /\ SameButNegative(heap[out].v, MergeInput)
                  /\ heap[out].v["negative_prompt_add"] =
                        IF MergeExisting.v # <<>>
                        THEN StrV(MergeExisting.v \o <<",", " ">> \o extra)
                        ELSE StrV(extra)
            /\ (MergeExisting = S_ugly /\ extra = BLURRY) =>
                  heap[out].v["negative_prompt_add"] =
                      StrV(<<"u", "g", "l", "y", ",", " ", "b", "l", "u", "r", "r", "y">>)

C10_Witness ==
    /\ Merged
    /\ "negative_prompt_add" \notin DOMAIN MergeInput
    /\ lastCall.arg = BLURRY
    /\ heap[lastCall.out].v["negative_prompt_add"] = StrV(BLURRY)
    /\ heap[lastCall.out].v["base_url"] = S_u1

\* the call of inject_llm_original_size last made: its input config as it
\* was, that config's format ("openai" when absent) and the result
Injected == lastCall.op = "inject_llm_original_size"
InjectInput == heapBefore[lastCall.in].v
InjectOutput == heap[lastCall.out].v
InjectFormat ==
    IF "format" \in DOMAIN InjectInput THEN InjectInput["format"] ELSE StrV(OPENAI)
SizeFormats == {StrV(GEMINI), StrV(ZAI)}
SameButSize(d, e) ==
    /\ DOMAIN d = DOMAIN e \cup {"_llm_original_size"}
    /\ \A f \in DOMAIN e \ {"_llm_original_size"} : d[f] = e[f]

Derived == lastCall.op \in {"merge_negative_prompt", "inject_llm_original_size"}

C12_Inv ==
    Derived =>
        /\ Len(heap) >= Len(heapBefore)
        /\ \A i \in 1..Len(heapBefore) : heap[i] = heapBefore[i]
        /\ heap[lastCall.in] = heapBefore[lastCall.in]
        /\ heap[lastCall.out] # heapBefore[lastCall.in] =>
              lastCall.out # lastCall.in /\ Fresh(lastCall.out)

C12_Step ==
    /\ Len(heap') >= Len(heap)
    /\ \A i \in 1..Len(heap) : heap'[i] = heap[i]

\* C12: no call of merge_negative_prompt or inject_llm_original_size, in any
\* order and with any arguments, changes an object that exists: the mapping
\* passed to a call has after the call the fields and values it had before,
\* and a result that differs from the input is a new object.
C12_NeverMutatedInPlace == []C12_Inv /\ [][C12_Step]_vars

C12_Witness ==
    /\ Derived
    /\ nCalls = 2
    /\ lastCall.op = "inject_llm_original_size"
    /\ lastCall.in = 3
    /\ lastCall.out = 4
    /\ heap[1] = NestedFull
    /\ heap[3].v["negative_prompt_add"] =
          StrV(<<"u", "g", "l", "y", ",", " ", "b", "l", "u", "r", "r", "y">>)
    /\ "_llm_original_size" \notin DOMAIN heap[3].v
    /\ heap[4].v["_llm_original_size"] = StrV(SIZE1)

----------------------------------------------------------------------------
(* resolve_image_data *)

BASE64_IMAGE_PREFIXES ==
    << <<"i", "V", "B", "O", "R", "w">>, <<"/", "9", "j", "/">>,
       <<"U", "k", "l", "G", "R">>, <<"R", "0", "l", "G", "O", "D">> >>

\* the characters of the message literals, non-ASCII ones by code point
DOWNLOAD_FAILED == <<"U+56FE", "U+7247", "U+4E0B", "U+8F7D", "U+5931", "U+8D25">>

\* image_data.startswith(BASE64_IMAGE_PREFIXES)
HasBase64Prefix_anywhere(s) ==
    \E k \in 1..Len(BASE64_IMAGE_PREFIXES), i \in 1..(Len(s) + 1) :
        StartsAt(s, i, BASE64_IMAGE_PREFIXES[k])

HasBase64Prefix(s) ==
    \E k \in 1..Len(BASE64_IMAGE_PREFIXES) : StartsAt(s, 1, BASE64_IMAGE_PREFIXES[k])

\* `except Exception` around the download (line 45)
ResolveCatches_none(exc) == FALSE

ResolveCatches(exc) == exc = "Exception"

\* a (success, data) pair as download_fn returns it
Pair(ok, data) == [t |-> "tuple", v |-> <<BoolV(ok), StrV(data)>>]
IsPair(x) == x.t = "tuple" /\ Len(x.v) = 2

\* lines 39-47, from the outcome of the awaited download_fn call on: the
\* pair returned, or the exception that leaves the function
AfterDownload(outcome) ==
    IF outcome.kind = "return" /\ IsPair(outcome.value)
    THEN LET encode_success == outcome.value.v[1]
             encode_result == outcome.value.v[2]
         IN  IF Truthy(encode_success)
             THEN [kind |-> "return", value |-> <<TRUE, encode_result.v>>]
             ELSE [kind |-> "return",
                   value |-> <<FALSE, DOWNLOAD_FAILED \o <<":", " ">>
                                      \o PyStr(encode_result)>>]
    ELSE LET exc == IF outcome.kind = "return" THEN "Exception" ELSE outcome.exc
         IN  IF ResolveCatches(exc)
             THEN [kind |-> "return", value |-> <<FALSE, DOWNLOAD_FAILED>>]
             ELSE [kind |-> "raise", exc |-> exc]

\* image references a caller can pass
ImageRefs ==
    { <<"i", "V", "B", "O", "R", "w">>,
      <<"i", "V", "B", "O", "R", "w", "0", "K", "G", "g", "o">>,
      <<"/", "9", "j", "/", "4", "A", "A", "Q">>,
      <<"U", "k", "l", "G", "R", "i", "4">>,
      <<"R", "0", "l", "G", "O", "D", "l", "h">>,
      <<>>,
      <<"i", "V", "B", "O", "R">>,
      <<"i", "v", "b", "o", "r", "w", "0", "K">>,
      <<" ", "i", "V", "B", "O", "R", "w", "0">>,
      <<"9", "j", "/", "4", "A">>,
      <<"U", "k", "l", "G">>,
      <<"R", "0", "l", "G", "O">>,
      <<"h", "t", "t", "p", "s", ":", "/", "/", "e", "x", ".", "c", "o", "m", "/", "a", ".", "p", "n", "g">>,
      <<"h", "t", "t", "p", ":", "/", "/", "e", "x", "/", "i", "V", "B", "O", "R", "w">>,
      <<"h", "t", "t", "p", ":", "/", "/", "e", "x", "/", "9", "j", "/", "a">>,
      <<"d", "a", "t", "a", ":", ",", "R", "0", "l", "G", "O", "D", "l", "h">> }

\* what download_fn can return: a (success, data) pair, or not a pair
DownloadData == {<<"Q", "Q">>, <<"i", "V", "B", "O", "R", "w", "0">>, <<>>}
DownloadErrors == {<<"4", "0", "4">>, <<"t", "i", "m", "e", "o", "u", "t">>, <<>>}
DownloadResults ==
    {Pair(TRUE, d) : d \in DownloadData}
        \cup {Pair(FALSE, e) : e \in DownloadErrors}
        \cup {None}
DownloadExceptions == {"Exception"}

\* a caller awaits resolve_image_data(image_data, download_fn)
InitResolve ==
    /\ rpc = "called"
    /\ image_data \in ImageRefs
    /\ downloadCalls = <<>>
    /\ downloadOutcome = NoDownload
    /\ resolveResult = NotRun
    /\ RecallIdle
    /\ ExtractIdle
    /\ ConfigIdle
    /\ RequestIdle
    /\ ChatIdle

\* lines 34-39: return the base64 data as it is, or hand image_data to
\* download_fn in a worker thread and await it
CheckPrefix ==
    /\ rpc = "called"
    /\ IF HasBase64Prefix(image_data)
       THEN /\ resolveResult' = <<TRUE, image_data>>
            /\ rpc' = "returned"
            /\ UNCHANGED downloadCalls
       ELSE /\ downloadCalls' = Append(downloadCalls, image_data)
            /\ rpc' = "in_download"
            /\ UNCHANGED resolveResult
    /\ UNCHANGED <<image_data, downloadOutcome>>

\* the rest of the function once the awaited call has had outcome
Finish(outcome) ==
    /\ downloadOutcome' = outcome
    /\ LET r == AfterDownload(outcome)
       IN  IF r.kind = "return"
           THEN resolveResult' = r.value /\ rpc' = "returned"
           ELSE UNCHANGED resolveResult /\ rpc' = "raised"
    /\ UNCHANGED <<image_data, downloadCalls>>

\* download_fn returns
DownloadReturns ==
    /\ rpc = "in_download"
    /\ \E result \in DownloadResults : Finish([kind |-> "return", value |-> result])

\* download_fn raises
DownloadRaises ==
    /\ rpc = "in_download"
    /\ \E exc \in DownloadExceptions : Finish([kind |-> "raise", exc |-> exc])

\* the awaiting task is cancelled while the download runs
CancelResolve ==
    /\ rpc = "in_download"
    /\ Finish([kind |-> "raise", exc |-> "CancelledError"])

NextResolve ==
    \/ CheckPrefix /\ UNCHANGED <<recallVars, extractVars, configVars, requestVars, chatVars>>
    \/ DownloadReturns /\ UNCHANGED <<recallVars, extractVars, configVars, requestVars, chatVars>>
    \/ DownloadRaises /\ UNCHANGED <<recallVars, extractVars, configVars, requestVars, chatVars>>
    \/ CancelResolve /\ UNCHANGED <<recallVars, extractVars, configVars, requestVars, chatVars>>

SpecResolve == InitResolve /\ [][NextResolve]_vars

----------------------------------------------------------------------------
(* OpenAIChatClient._make_request, from the proxy configuration on *)

\* str(e)[:100]
SummaryLimit == 100

\* a bound on the length of the server's reason phrase and of exception text
LongTextLen == 150

CHAT_COMPLETIONS == <<"/", "c", "h", "a", "t", "/", "c", "o", "m", "p", "l", "e", "t", "i", "o", "n", "s">>
REQUEST_FAILED == <<"C", "h", "a", "t", " ", "A", "P", "I", "U+8BF7", "U+6C42", "U+5931", "U+8D25", "(", "U+72B6", "U+6001", "U+7801", " ">>
REQUEST_EXCEPTION == <<"C", "h", "a", "t", " ", "A", "P", "I", "U+8BF7", "U+6C42", "U+5F02", "U+5E38", ":", " ">>

\* s.rstrip('/')
RStrip(s) ==
    LET keep == {0} \cup {i \in 1..Len(s) : s[i] # "/"}
    IN  SubSeq(s, 1, MaxOf(keep))

\* f"{base_url.rstrip('/')}/chat/completions"
Endpoint(url) == RStrip(url) \o CHAT_COMPLETIONS

\* urllib.request.Request(endpoint, ...) accepts a URL that has a scheme:
\* one or more characters other than / and :, then a colon
HasScheme(url) ==
    \E i \in 2..Len(url) :
        /\ url[i] = ":"
        /\ \A k \in 1..(i - 1) : url[k] \notin {"/", ":"}

\* `except Exception` of line 173
RequestCatches(exc) == exc \in {"Exception", "HTTPError"}

\* s[:n]
Truncate(s, n) == SubSeq(s, 1, MinOf({Len(s), n}))

\* str(HTTPError): "HTTP Error <code>: <reason>"
HTTPErrorStr(status, reason) ==
    <<"H", "T", "T", "P", " ", "E", "r", "r", "o", "r", " ">> \o DecStr(status) \o <<":", " ">> \o reason

\* str(e) of the exceptions the transport and the decoding raise
STR_TIMED_OUT == <<"t", "i", "m", "e", "d", " ", "o", "u", "t">>
STR_REFUSED == <<"<", "u", "r", "l", "o", "p", "e", "n", " ", "e", "r", "r", "o", "r", " ", "[", "E", "r", "r", "n", "o", " ", "1", "1", "1", "]", " ", "C", "o", "n", "n", "e", "c", "t", "i", "o", "n", " ", "r", "e", "f", "u", "s", "e", "d", ">">>
STR_RESET == <<"[", "E", "r", "r", "n", "o", " ", "1", "0", "4", "]", " ", "C", "o", "n", "n", "e", "c", "t", "i", "o", "n", " ", "r", "e", "s", "e", "t", " ", "b", "y", " ", "p", "e", "e", "r">>
STR_UNKNOWN_URL == <<"u", "n", "k", "n", "o", "w", "n", " ", "u", "r", "l", " ", "t", "y", "p", "e">>
STR_NOT_UTF8 == <<"'", "u", "t", "f", "-", "8", "'", " ", "c", "o", "d", "e", "c", " ", "c", "a", "n", "'", "t", " ", "d", "e", "c", "o", "d", "e", " ", "b", "y", "t", "e", " ", "0", "x", "f", "f", " ", "i", "n", " ", "p", "o", "s", "i", "t", "i", "o", "n", " ", "0", ":", " ", "i", "n", "v", "a", "l", "i", "d", " ", "s", "t", "a", "r", "t", " ", "b", "y", "t", "e">>
STR_NOT_JSON == <<"E", "x", "p", "e", "c", "t", "i", "n", "g", " ", "v", "a", "l", "u", "e", ":", " ", "l", "i", "n", "e", " ", "1", " ", "c", "o", "l", "u", "m", "n", " ", "1", " ", "(", "c", "h", "a", "r", " ", "0", ")">>
STR_NOT_DICT == <<"'", "l", "i", "s", "t", "'", " ", "o", "b", "j", "e", "c", "t", " ", "h", "a", "s", " ", "n", "o", " ", "a", "t", "t", "r", "i", "b", "u", "t", "e", " ", "'", "g", "e", "t", "'">>

\* opener.open(req, timeout), response.read() and decode("utf-8"), lines
\* 154-157: the opener hands back responses with a 2xx status and raises
\* HTTPError for the others; bytes that are not UTF-8 raise on decoding
OpenAndRead(outcome) ==
    IF outcome.kind = "raise" THEN outcome
    ELSE IF ~(200 <= outcome.status /\ outcome.status < 300)
    THEN [kind |-> "raise", exc |-> "HTTPError",
          str |-> HTTPErrorStr(outcome.status, outcome.reason)]
    ELSE IF outcome.body.kind = "bytes"
    THEN [kind |-> "raise", exc |-> "Exception", str |-> STR_NOT_UTF8]
    ELSE outcome

\* json.loads(response_body_str)
JsonLoads(body) ==
    IF body.kind = "json" THEN [kind |-> "value", value |-> body.value]
    ELSE [kind |-> "raise", exc |-> "Exception", str |-> STR_NOT_JSON]

\* a parsed value that has .get: a JSON object
IsJsonObject(value) == "choices" \in DOMAIN value

\* lines 166-171: the response handed to the extraction, if any, and the
\* result returned or the exception raised inside the try
HandleResponse(response) ==
    IF 200 <= response.status /\ response.status < 300
    THEN LET parsed == JsonLoads(response.body)
         IN  IF parsed.kind = "raise"
             THEN [extract |-> <<>>, out |-> parsed]
             ELSE IF ~IsJsonObject(parsed.value)
             THEN [extract |-> <<parsed.value>>,
                   out |-> [kind |-> "raise", exc |-> "Exception", str |-> STR_NOT_DICT]]
             ELSE [extract |-> <<parsed.value>>,
                   out |-> [kind |-> "return",
                            value |-> ExtractImageFromResponse(parsed.value)]]
    ELSE [extract |-> <<>>,
          out |-> [kind |-> "return",
                   value |-> <<FALSE, REQUEST_FAILED \o DecStr(response.status) \o <<")">>>>]]

\* the handler of line 173 applied to what the body of the try did
AfterTry(out) ==
    IF out.kind = "return" THEN out
    ELSE IF RequestCatches(out.exc)
    THEN [kind |-> "return",
          value |-> <<FALSE, REQUEST_EXCEPTION \o Truncate(out.str, SummaryLimit)>>]
    ELSE out

\* lines 141-176 for one outcome of the exchange with the server
SendAndHandle(outcome) ==
    LET opened == OpenAndRead(outcome)
    IN  IF opened.kind = "raise"
        THEN [extract |-> <<>>, out |-> AfterTry(opened)]
        ELSE LET h == HandleResponse(opened)
             IN  [extract |-> h.extract, out |-> AfterTry(h.out)]

\* base URLs a model configuration can hold (non-empty, see get_model_config)
URL_A == <<"h", "t", "t", "p", "s", ":", "/", "/", "a">>
URL_B == <<"h", "t", "t", "p", ":", "/", "/", "b", "/", "v", "1", "/", "/">>
URL_NO_SCHEME == <<"a", "p", "i", ".", "e", "x", "/", "v", "1">>
URL_HOST_PORT == <<"l", "o", "c", "a", "l", "h", "o", "s", "t", ":", "8", "0", "8", "0", "/", "v", "1">>
BaseUrls == {URL_A, URL_B, URL_NO_SCHEME, URL_HOST_PORT}

\* what _get_proxy_config gives: None, or a mapping with or without timeout
ProxyFull ==
    DictV(("http" :> StrV(URL_A)) @@ ("https" :> StrV(URL_A)) @@ ("timeout" :> IntV(30)))
ProxyNoTimeout == DictV(("http" :> StrV(URL_A)) @@ ("https" :> StrV(URL_A)))
ProxyConfigs == {None, ProxyFull, ProxyNoTimeout}

\* lines 143-152
TimeoutOf(proxy) ==
    IF Truthy(proxy) THEN DictGet(proxy.v, "timeout", IntV(600)).v ELSE 600

\* what a server can answer: status, reason phrase, body
BODY_SECRET == <<"S", "E", "C", "R", "E", "T", "B", "O", "D", "Y">>
JsonBodies ==
    { [kind |-> "json",
       value |-> [choices |-> <<[message |-> [content |-> ExampleMarkdownAndUrl]]>>]],
      [kind |-> "json", value |-> [choices |-> <<[message |-> [content |-> TxtHere]]>>]],
      [kind |-> "json", value |-> [choices |-> <<>>]],
      [kind |-> "json", value |-> [t |-> "list"]] }
OtherBodies ==
    { [kind |-> "text", text |-> BODY_SECRET],
      [kind |-> "text", text |-> <<>>],
      [kind |-> "bytes"] }
Bodies == JsonBodies \cup OtherBodies
Statuses == {200, 204, 299, 300, 304, 404, 500, 199}
Reasons == {<<"O", "K">>, Rep("R", LongTextLen)}
ServerResponses ==
    {[kind |-> "response", status |-> st, reason |-> rs, body |-> b] :
        st \in Statuses, rs \in Reasons, b \in Bodies}

\* what the transport can raise, by str(e)
TransportFailures ==
    {[kind |-> "raise", exc |-> "Exception", str |-> m] :
        m \in {STR_TIMED_OUT, STR_REFUSED, STR_RESET, <<>>,
               Rep("x", SummaryLimit), Rep("x", SummaryLimit + 1),
               Rep("x", LongTextLen)}}

\* _make_request has built payload and headers and asks for the proxy
InitRequest ==
    /\ qpc = "building"
    /\ base_url \in BaseUrls
    /\ proxy_config \in ProxyConfigs
    /\ timeout = 0
    /\ httpOutcome = NoOutcome
    /\ extractCalls = <<>>
    /\ requestResult = NotRun
    /\ RecallIdle
    /\ ExtractIdle
    /\ ConfigIdle
    /\ ResolveIdle
    /\ ChatIdle

\* lines 137-152: the Request object, created before the try of line 141
\* is entered, then the opener and the timeout
BuildRequest ==
    /\ qpc = "building"
    /\ LET endpoint == Endpoint(base_url)
       IN  IF HasScheme(endpoint)
           THEN /\ qpc' = "sending"
                /\ timeout' = TimeoutOf(proxy_config)
                /\ UNCHANGED <<httpOutcome, requestResult>>
           ELSE /\ httpOutcome' = [kind |-> "raise", exc |-> "ValueError",
                                    str |-> STR_UNKNOWN_URL]
                /\ qpc' = "raised"
                /\ UNCHANGED <<timeout, requestResult>>
    /\ UNCHANGED <<base_url, proxy_config, extractCalls>>

\* the rest of the method for one outcome of the exchange
Complete(outcome) ==
    /\ httpOutcome' = outcome
    /\ LET r == SendAndHandle(outcome)
       IN  /\ extractCalls' = r.extract
           /\ IF r.out.kind = "return"
              THEN qpc' = "returned" /\ requestResult' = r.out.value
              ELSE qpc' = "raised" /\ UNCHANGED requestResult
    /\ UNCHANGED <<base_url, proxy_config, timeout>>

\* the server answers
ServerResponds ==
    /\ qpc = "sending"
    /\ \E response \in ServerResponses : Complete(response)

\* the connection fails or times out
TransportFails ==
    /\ qpc = "sending"
    /\ \E failure \in TransportFailures : Complete(failure)

NextRequest ==
    \/ BuildRequest /\ UNCHANGED <<recallVars, extractVars, configVars, resolveVars, chatVars>>
    \/ ServerResponds /\ UNCHANGED <<recallVars, extractVars, configVars, resolveVars, chatVars>>
    \/ TransportFails /\ UNCHANGED <<recallVars, extractVars, configVars, resolveVars, chatVars>>

SpecRequest == InitRequest /\ [][NextRequest]_vars

----------------------------------------------------------------------------
(* Claims about image data resolution, checked under SpecResolve *)

\* s starts with one of the four base64 signature prefixes
ClaimPrefixes ==
    { <<"i", "V", "B", "O", "R", "w">>, <<"/", "9", "j", "/">>,
      <<"U", "k", "l", "G", "R">>, <<"R", "0", "l", "G", "O", "D">> }
Prefixed(s) ==
    \E p \in ClaimPrefixes : Len(s) >= Len(p) /\ SubSeq(s, 1, Len(p)) = p

PastCheck == rpc \in {"in_download", "returned", "raised"}
Downloaded == downloadOutcome.kind = "return" /\ downloadOutcome.value # None
DownloadedOk == Downloaded /\ downloadOutcome.value.v[1] = BoolV(TRUE)
DownloadedFailure == Downloaded /\ downloadOutcome.value.v[1] = BoolV(FALSE)
DownloadFailedPath ==
    \/ downloadOutcome.kind = "return" /\ downloadOutcome.value = None
    \/ downloadOutcome.kind = "raise" /\ downloadOutcome.exc = "Exception"
SamePair(result, pair) ==
    /\ result[1] = pair.v[1].v
    /\ result[2] = pair.v[2].v

\* C13: for image data that starts with iVBORw, /9j/, UklGR or R0lGOD the
\* result is (true, image data) and download_fn is never invoked; for image
\* data without such a prefix download_fn is invoked exactly once, with the
\* image data as argument, and when it succeeds its result is returned
\* unchanged.
C13_ResolveDecisionRule ==
    PastCheck =>
        IF Prefixed(image_data)
        THEN /\ rpc = "returned"
             /\ resolveResult = <<TRUE, image_data>>
             /\ downloadCalls = <<>>
             /\ downloadOutcome = NoDownload
        ELSE /\ downloadCalls = <<image_data>>
             /\ DownloadedOk =>
                   /\ rpc = "returned"
                   /\ SamePair(resolveResult, downloadOutcome.value)

C13_Witness ==
    /\ rpc = "returned"
    /\ image_data = <<"h", "t", "t", "p", ":", "/", "/", "e", "x", "/", "i", "V", "B", "O", "R", "w">>
    /\ downloadCalls = <<image_data>>
    /\ resolveResult = <<TRUE, <<"Q", "Q">>>>

\* C14 as stated: without a signature prefix the pair returned is the pair
\* download_fn returned, for failure as for success results, and an
\* exception on the download path gives a failure result.
C14_PairPropagated ==
    (PastCheck /\ ~Prefixed(image_data)) =>
        /\ Downloaded =>
              rpc = "returned" /\ SamePair(resolveResult, downloadOutcome.value)
        /\ DownloadFailedPath =>
              rpc = "returned" /\ resolveResult[1] = FALSE

\* C14 amended: without a signature prefix a success result of download_fn
\* is returned as it is; a failure result (false, data) is returned as
\* (false, "<download failed>: " + data); and an exception on the download
\* path (download_fn raising, or returning something that is not a pair)
\* gives the failure result (false, "<download failed>") instead of
\* propagating to the caller.
C14_DownloadResultHandling ==
    (PastCheck /\ ~Prefixed(image_data)) =>
        /\ DownloadedOk =>
              rpc = "returned" /\ SamePair(resolveResult, downloadOutcome.value)
        /\ DownloadedFailure =>
              /\ rpc = "returned"
              /\ resolveResult =
                    <<FALSE,
                      <<"U+56FE", "U+7247", "U+4E0B", "U+8F7D", "U+5931", "U+8D25", ":", " ">>
                          \o downloadOutcome.value.v[2].v>>
        /\ DownloadFailedPath =>
              /\ rpc = "returned"
              /\ resolveResult =
                    <<FALSE, <<"U+56FE", "U+7247", "U+4E0B", "U+8F7D", "U+5931", "U+8D25">>>>

C14_Witness ==
    /\ rpc = "returned"
    /\ image_data = <<"h", "t", "t", "p", "s", ":", "/", "/", "e", "x", ".", "c", "o", "m", "/", "a", ".", "p", "n", "g">>
    /\ downloadOutcome = [kind |-> "raise", exc |-> "Exception"]
    /\ downloadCalls = <<image_data>>
    /\ resolveResult[1] = FALSE

----------------------------------------------------------------------------
(* Claims about the generation request, checked under SpecRequest *)

\* the text lit occurs in s
Occurs(lit, s) ==
    \E i \in 1..(Len(s) - Len(lit) + 1) : SubSeq(s, i, i + Len(lit) - 1) = lit

StatusText(st) ==
    CASE st = 199 -> <<"1", "9", "9">>
      [] st = 200 -> <<"2", "0", "0">>
      [] st = 204 -> <<"2", "0", "4">>
      [] st = 299 -> <<"2", "9", "9">>
      [] st = 300 -> <<"3", "0", "0">>
      [] st = 304 -> <<"3", "0", "4">>
      [] st = 404 -> <<"4", "0", "4">>
      [] st = 500 -> <<"5", "0", "0">>

ServerAnswered == httpOutcome.kind = "response"
Status2xx == ServerAnswered /\ httpOutcome.status \in 200..299
StatusNot2xx == ServerAnswered /\ httpOutcome.status \notin 200..299
NotParsable == Status2xx /\ httpOutcome.body.kind # "json"
TransportRaised == httpOutcome.kind = "raise" /\ httpOutcome.exc = "Exception"
ExceptionPrefix == <<"C", "h", "a", "t", " ", "A", "P", "I", "U+8BF7", "U+6C42", "U+5F02", "U+5E38", ":", " ">>

\* the result is a failure whose message is the exception prefix and the
\* first 100 characters, at most, of the text of the exception
FailureWithSummary(result, text) ==
    /\ result[1] = FALSE
    /\ \E n \in 0..100 :
          /\ n <= Len(text)
          /\ (n < 100 => n = Len(text))
          /\ result[2] = ExceptionPrefix \o SubSeq(text, 1, n)

\* what the method does with the outcome of the exchange once the request
\* has been sent
C15_OutcomeHandled ==
    (qpc \in {"returned", "raised"} /\ httpOutcome.kind \in {"response", "raise"}
        /\ httpOutcome # [kind |-> "raise", exc |-> "ValueError",
                          str |-> <<"u", "n", "k", "n", "o", "w", "n", " ", "u", "r", "l", " ", "t", "y", "p", "e">>]) =>
        /\ qpc = "returned"
        /\ StatusNot2xx =>
              /\ requestResult[1] = FALSE
              /\ Occurs(StatusText(httpOutcome.status), requestResult[2])
              /\ ~Occurs(<<"S", "E", "C", "R", "E", "T", "B", "O", "D", "Y">>, requestResult[2])
        /\ TransportRaised => FailureWithSummary(requestResult, httpOutcome.str)
        /\ NotParsable =>
              /\ requestResult[1] = FALSE
              /\ Len(requestResult[2]) <= Len(ExceptionPrefix) + 100
        /\ extractCalls # <<>> =>
              /\ Status2xx
              /\ httpOutcome.body.kind = "json"
              /\ extractCalls = <<httpOutcome.body.value>>
        /\ (Status2xx /\ httpOutcome.body.kind = "json") =>
              extractCalls = <<httpOutcome.body.value>>

\* C15: a generation request never raises into its caller; a non-2xx
\* response gives a failure result whose message carries the status code
\* and not the response body; a transport-level exception gives a failure
\* result with the exception summary cut to 100 characters; only a 2xx
\* response whose body parses as JSON reaches the extraction.
C15_NeverRaisesIntoCaller ==
    /\ qpc # "raised"
    /\ C15_OutcomeHandled

----------------------------------------------------------------------------
(* schedule_auto_recall: several invocations for one chat *)

MaxSends == 2
MaxTime == 12

\* asyncio.sleep(4); start_time = current_time - 10; end_time =
\* current_time + 1; limit = 5
GraceSeconds == 4
WindowBefore == 10
WindowAfter == 1
LookupLimit == 5

\* delay_seconds of an invocation
DelaySeconds == {0, 3}

\* the order of the list get_messages_by_time_in_chat returns
ListOrders == {"oldest_first", "newest_first"}

Reverse(seq) == [i \in 1..Len(seq) |-> seq[Len(seq) + 1 - i]]

\* message_api.get_messages_by_time_in_chat(chat_id, start_time, end_time,
\* limit=5, limit_mode="latest") at time t: the latest messages of the window
GetMessagesByTimeInChat(msgs, t, order) ==
    LET inWindow == SelectSeq(msgs, LAMBDA m : /\ m.time >= t - WindowBefore
                                              /\ m.time <= t + WindowAfter)
        latest == SubSeq(inWindow, MaxOf({1, Len(inWindow) - LookupLimit + 1}),
                         Len(inWindow))
    IN  IF order = "newest_first" THEN Reverse(latest) ELSE latest

\* the platform id of the k-th image message the bot sends
PlatformId(k) == IntV(100 + k)

\* the locals of a _recall_task that has just been created at time t
NewTask(t, delay) ==
    [pc |-> "grace_wait", wake |-> t + GraceSeconds, delay_seconds |-> delay,
     target_message_id |-> None, cmdIdx |-> 1, calls |-> <<>>,
     recall_success |-> FALSE]

\* a chat in which nothing has been sent in the last seconds
InitChat ==
    /\ now = 0
    /\ listOrder \in ListOrders
    /\ store = <<>>
    /\ sent = <<>>
    /\ tasks = <<>>
    /\ RecallIdle
    /\ ExtractIdle
    /\ ConfigIdle
    /\ ResolveIdle
    /\ RequestIdle

\* the bot sends an image message, which the store records, and the sender
\* calls schedule_auto_recall(chat_id, delay_seconds, ...): line 119
SendImage ==
    /\ Len(sent) < MaxSends
    /\ \E delay \in DelaySeconds :
          tasks' = Append(tasks, NewTask(now, delay))
    /\ store' = Append(store, [time |-> now, user_id |-> BotAccount,
                               message_id |-> PlatformId(Len(sent) + 1)])
    /\ sent' = Append(sent, PlatformId(Len(sent) + 1))
    /\ UNCHANGED <<now, listOrder>>

\* lines 36-70 of task i: the grace wait is over; lookup, scan, and either
\* return or start the delay wait
TaskLookup(i) ==
    /\ tasks[i].pc = "grace_wait"
    /\ now >= tasks[i].wake
    /\ LET found == FindTarget(GetMessagesByTimeInChat(store, now, listOrder))
       IN  tasks' = [tasks EXCEPT ![i].target_message_id = found,
                                  ![i].pc = AfterLookup(found),
                                  ![i].wake = now + tasks[i].delay_seconds]
    /\ UNCHANGED <<now, listOrder, store, sent>>

\* lines 70-82 of task i: the delay wait is over; the first command is sent
TaskSendsFirst(i) ==
    /\ tasks[i].pc = "delay_wait"
    /\ now >= tasks[i].wake
    /\ tasks' = [tasks EXCEPT ![i].pc = "in_call",
                              ![i].calls = <<[cmd |-> DELETE_COMMAND_CANDIDATES[1],
                                              message_id |-> tasks[i].target_message_id]>>]
    /\ UNCHANGED <<now, listOrder, store, sent>>

\* lines 82-107 of task i: send_command_fn returns; stop on success, else
\* send the next candidate, else give up
TaskCommandReturns(i) ==
    /\ tasks[i].pc = "in_call"
    /\ \E result \in {BoolV(TRUE), BoolV(FALSE)} :
          IF IsSuccess(result)
          THEN tasks' = [tasks EXCEPT ![i].pc = "recalled",
                                      ![i].recall_success = TRUE]
          ELSE IF tasks[i].cmdIdx < Len(DELETE_COMMAND_CANDIDATES)
          THEN tasks' = [tasks EXCEPT
                            ![i].cmdIdx = @ + 1,
                            ![i].calls = Append(@, [cmd |-> DELETE_COMMAND_CANDIDATES[tasks[i].cmdIdx + 1],
                                                    message_id |-> tasks[i].target_message_id])]
          ELSE tasks' = [tasks EXCEPT ![i].pc = "failed"]
    /\ UNCHANGED <<now, listOrder, store, sent>>

\* a second passes; the event loop wakes a sleeping task when its time comes
Tick ==
    /\ now < MaxTime
    /\ \A i \in 1..Len(tasks) :
          tasks[i].pc \in {"grace_wait", "delay_wait"} => now < tasks[i].wake
    /\ now' = now + 1
    /\ UNCHANGED <<listOrder, store, sent, tasks>>

NextChat ==
    \/ SendImage /\ UNCHANGED <<recallVars, extractVars, configVars, resolveVars, requestVars>>
    \/ \E i \in 1..Len(tasks) :
          TaskLookup(i) /\ UNCHANGED <<recallVars, extractVars, configVars, resolveVars, requestVars>>
    \/ \E i \in 1..Len(tasks) :
          TaskSendsFirst(i) /\ UNCHANGED <<recallVars, extractVars, configVars, resolveVars, requestVars>>
    \/ \E i \in 1..Len(tasks) :
          TaskCommandReturns(i) /\ UNCHANGED <<recallVars, extractVars, configVars, resolveVars, requestVars>>
    \/ Tick /\ UNCHANGED <<recallVars, extractVars, configVars, resolveVars, requestVars>>

SpecChat == InitChat /\ [][NextChat]_vars

----------------------------------------------------------------------------
(* Claims about concurrent recall invocations, checked under SpecChat *)

\* the message id invocation i has selected, as text, once it has one
Targeted(i) == tasks[i].target_message_id # None
TargetOf(i) == tasks[i].target_message_id.v

\* C16: the message an invocation targets is the message whose sending
\* scheduled it, and two invocations scheduled for two different sent
\* messages never target the same message id.
C16_EachTargetsItsOwnMessage ==
    /\ \A i \in 1..Len(tasks) :
          Targeted(i) => TargetOf(i) = PyStr(sent[i])
    /\ \A i, j \in 1..Len(tasks) :
          (i # j /\ Targeted(i) /\ Targeted(j)) => TargetOf(i) # TargetOf(j)

====
